---- MODULE Spec2Model ----
(***************************************************************************)
(* Model of ocr_module.py: the boolean text search (search_text_files),    *)
(* the incremental OCR runner (ocr_parse) and the batch orchestrator       *)
(* (process_source_files) with its multiprocessing.Pool.                   *)
(*                                                                         *)
(* Strings (queries, file contents, file names) are sequences of one-      *)
(* character strings, so that split(), "in", endswith() and splitext()     *)
(* are computed character by character, as Python computes them.           *)
(***************************************************************************)
EXTENDS Integers, Sequences, FiniteSets, TLC

VARIABLES
    \* ---- search_text_files ----
    tree,            \* files under `path`, in os.walk order: [path, content]
    rootExists,      \* whether `path` exists
    outputWritable,  \* whether open(output_filename, "w") succeeds
    query,           \* search_string
    search_terms,    \* the list search_terms (mutated by check_file_contents)
    matching,        \* matching_file_paths
    walkPos,         \* index of the next file the walk yields
    usedTerms,       \* history: search_terms as evaluated for each .txt file
    output,          \* lines of the output file
    searchPc,        \* "walk" | "done" | "ioerror" | "idle"
    \* ---- ocr_parse ----
    sourceExists,    \* whether source_directory exists
    source,          \* os.listdir(source_directory), in listing order
    targetExists,    \* whether target_directory exists
    target,          \* target_directory: file name -> content
    processed_files, \* the set processed_files of the current run
    srcPos,          \* index of the next source entry of the loop
    ocrPc,           \* "ready" | "loop" | "returned" | "raised" | "idle"
    run,             \* number of the current run (1..MaxRuns)
    recognized,      \* history: <<run, filename>> of each image_to_string call
    writes,          \* history: <<run, filename, target filename>> of each write
    errors,          \* history: <<run, filename>> of each logger.error
    failed,          \* history: <<run, filename>> of each image that raised
    targetAtStart,   \* history: target as it was when the current run started
    \* ---- process_source_files ----
    zips,            \* number of .zip files listed in the directory
    mainPc,          \* position of the orchestrator
    cur,             \* index of the archive the loop is at
    taskq,           \* the pool's task queue (FIFO)
    ext,             \* state of each archive's extract_zip task
    ocr,             \* state of each archive's ocr_parse task
    poolState,       \* "none" | "open" | "closed" | "terminated"
    sourceDir,       \* archives whose source directory exists
    archive,         \* top-level entries of each .zip file, in listing order
    srcFiles,        \* listing of each archive's source directory
    tgtDir,          \* archives whose target directory exists
    tgtFiles,        \* each archive's target directory: file name -> content
    taskProcessed,   \* processed_files of each archive's ocr_parse task
    taskPos,         \* next source entry of each ocr_parse task (0: not begun)
    poolLog          \* records written to process_source_files.log

searchVars == <<tree, rootExists, outputWritable, query, search_terms,
                matching, walkPos, usedTerms, output, searchPc>>
ocrVars    == <<sourceExists, source, targetExists, target, processed_files, srcPos, ocrPc,
                run, recognized, writes, errors, failed, targetAtStart>>
fileVars   == <<archive, srcFiles, tgtDir, tgtFiles, taskProcessed, taskPos>>
poolVars   == <<zips, mainPc, cur, taskq, ext, ocr, poolState, sourceDir,
                fileVars, poolLog>>
vars       == <<searchVars, ocrVars, poolVars>>

(***************************************************************************)
(* Bounds                                                                  *)
(***************************************************************************)
MaxFiles    == 3   \* files under the search root
MaxSrc      == 3   \* entries of the source directory
MaxRuns     == 2   \* successive ocr_parse runs against one target directory
MaxArchives == 7   \* .zip files in the directory (more than the pool size)
MaxPipeArchives == 2   \* .zip files when their contents are followed

(***************************************************************************)
(* Strings                                                                 *)
(***************************************************************************)
Sp   == <<" ">>
Foo  == <<"f", "o", "o">>
Bar  == <<"b", "a", "r">>
OR   == <<"O", "R">>
AND  == <<"A", "N", "D">>
Txt  == <<".", "t", "x", "t">>
Tif  == <<".", "t", "i", "f">>
Tiff == <<".", "t", "i", "f", "f">>

\* str.endswith(suffix)
EndsWith(s, suffix) ==
    /\ Len(s) >= Len(suffix)
    /\ SubSeq(s, Len(s) - Len(suffix) + 1, Len(s)) = suffix

\* term in file_contents (substring test on str)
Contains(s, t) ==
    \E i \in 0..(Len(s) - Len(t)) : SubSeq(s, i + 1, i + Len(t)) = t

\* list.remove(x): drops the first occurrence of x
RECURSIVE Remove(_, _)
Remove(l, x) ==
    IF l = <<>> THEN <<>>
    ELSE IF Head(l) = x THEN Tail(l)
    ELSE <<Head(l)>> \o Remove(Tail(l), x)

\* x in list
InList(l, x) == \E i \in 1..Len(l) : l[i] = x

\* str.split(): cut on runs of whitespace, no empty strings
RECURSIVE SplitFrom(_, _, _)
SplitFrom(s, i, word) ==
    IF i > Len(s)
    THEN IF word = <<>> THEN <<>> ELSE <<word>>
    ELSE IF s[i] = " "
         THEN IF word = <<>> THEN SplitFrom(s, i + 1, <<>>)
              ELSE <<word>> \o SplitFrom(s, i + 1, <<>>)
         ELSE SplitFrom(s, i + 1, Append(word, s[i]))

Split(s) == SplitFrom(s, 1, <<>>)

(***************************************************************************)
(* search_text_files                                                       *)
(***************************************************************************)
Queries ==
    { Foo \o Sp \o OR \o Sp \o Bar,                \* "foo OR bar"
      Foo \o Sp \o Bar,                            \* "foo bar"
      Foo \o Sp \o AND \o Sp \o Bar,               \* "foo AND bar"
      Sp \o Bar \o Sp \o Sp \o OR \o Sp \o Foo,    \* " bar  OR foo"
      Foo \o Sp \o OR \o Sp \o Bar \o Sp \o OR \o Sp \o AND, \* "foo OR bar OR AND"
      Foo }                                        \* "foo"

Contents ==
    { <<>>,                                        \* ""
      Foo,                                         \* "foo"
      Bar \o Foo,                                  \* "barfoo"
      Foo \o Sp \o AND \o Sp \o Bar,               \* "foo AND bar"
      <<"F">> \o OR \o Sp \o Bar }                 \* "FOR bar"

Digit(k) == <<"0", "1", "2", "3", "4", "5", "6", "7", "8", "9">>[k + 1]

\* the k-th file of the walk: os.path.join(root, filename)
PathOf(k, extension) == <<Digit(k)>> \o extension

Trees ==
    UNION { { [k \in 1..n |-> [path |-> PathOf(k, f[k][1]), content |-> f[k][2]]] :
              f \in [1..n -> ({Txt} \X Contents) \cup {<<Tif, Foo>>}] } :
            n \in 0..MaxFiles }

\* os.walk(path): onerror is None, so a root that cannot be listed yields nothing
OsWalk == IF rootExists THEN tree ELSE <<>>

\* check_file_contents that also strips the token AND in the default mode
CheckResultStripAnd(terms, file_contents) ==
    IF InList(terms, OR)
    THEN \E i \in 1..Len(Remove(terms, OR)) :
            Contains(file_contents, Remove(terms, OR)[i])
    ELSE \A i \in 1..Len(terms) :
            terms[i] = AND \/ Contains(file_contents, terms[i])

\* check_file_contents: the value it returns
CheckResult(terms, file_contents) ==
    IF InList(terms, OR)
    THEN \E i \in 1..Len(Remove(terms, OR)) :
            Contains(file_contents, Remove(terms, OR)[i])
    ELSE \A i \in 1..Len(terms) : Contains(file_contents, terms[i])

\* check_file_contents: search_terms after the call
CheckTerms(terms) ==
    IF InList(terms, OR) THEN Remove(terms, OR) ELSE terms

SearchInit ==
    /\ rootExists \in BOOLEAN
    /\ outputWritable \in BOOLEAN
    /\ tree \in IF rootExists THEN Trees ELSE {<<>>}
    /\ query \in Queries
    /\ search_terms = Split(query)
    /\ matching = <<>>
    /\ walkPos = 1
    /\ usedTerms = <<>>
    /\ output = <<>>
    /\ searchPc = "walk"

SearchIdle ==
    /\ rootExists = FALSE
    /\ outputWritable = FALSE
    /\ tree = <<>>
    /\ query = <<>>
    /\ search_terms = <<>>
    /\ matching = <<>>
    /\ walkPos = 1
    /\ usedTerms = <<>>
    /\ output = <<>>
    /\ searchPc = "idle"

\* one iteration of the walk (lines 159-171): a file that is not .txt is
\* passed over, a .txt file is read and handed to check_file_contents
SearchVisit ==
    /\ searchPc = "walk"
    /\ walkPos <= Len(OsWalk)
    /\ LET f == OsWalk[walkPos] IN
         IF EndsWith(f.path, Txt)
         THEN /\ matching' = IF CheckResult(search_terms, f.content)
                             THEN Append(matching, f.path)
                             ELSE matching
              /\ search_terms' = CheckTerms(search_terms)
              /\ usedTerms' = Append(usedTerms,
                                 [terms |-> CheckTerms(search_terms),
                                  any   |-> InList(search_terms, OR)])
         ELSE UNCHANGED <<matching, search_terms, usedTerms>>
    /\ walkPos' = walkPos + 1
    /\ UNCHANGED <<tree, rootExists, outputWritable, query, output, searchPc>>
    /\ UNCHANGED <<ocrVars, poolVars>>

\* lines 174-176: the output file is opened and the paths are written
SearchWriteOutput ==
    /\ searchPc = "walk"
    /\ walkPos > Len(OsWalk)
    /\ outputWritable
    /\ output' = matching
    /\ searchPc' = "done"
    /\ UNCHANGED <<tree, rootExists, outputWritable, query, search_terms,
                   matching, walkPos, usedTerms>>
    /\ UNCHANGED <<ocrVars, poolVars>>

\* line 174: open(output_filename, "w") raises OSError
SearchOutputError ==
    /\ searchPc = "walk"
    /\ walkPos > Len(OsWalk)
    /\ ~outputWritable
    /\ searchPc' = "ioerror"
    /\ UNCHANGED <<tree, rootExists, outputWritable, query, search_terms,
                   matching, walkPos, usedTerms, output>>
    /\ UNCHANGED <<ocrVars, poolVars>>

(***************************************************************************)
(* ocr_parse                                                               *)
(***************************************************************************)
XTif  == <<"x">> \o Tif      \* "x.tif"
XTiff == <<"x">> \o Tiff     \* "x.tiff", same base name as "x.tif"
YTif  == <<"y">> \o Tif      \* "y.tif"
NTxt  == <<"n">> \o Txt      \* "n.txt", not an image
XTxt  == <<"x">> \o Txt      \* "x.txt"
NLog  == <<"n", ".", "l", "o", "g">>
Old   == <<"o", "l", "d">>   \* text written before the first run

SrcNames == {XTif, XTiff, YTif, NTxt}

\* sequences of at most n distinct elements of S
RECURSIVE Listings(_, _)
Listings(S, n) ==
    IF n = 0 THEN {<<>>}
    ELSE {<<>>} \cup
         UNION { { <<x>> \o l : l \in Listings(S \ {x}, n - 1) } : x \in S }

\* what the target directory may hold before the first run
InitialTargets ==
    { <<>>,
      [n \in {XTxt} |-> Old],
      [n \in {XTxt, NLog} |-> Old] }

\* index of the last "." of s, 0 when there is none (str.rfind + 1)
RECURSIVE LastDot(_, _)
LastDot(s, i) ==
    IF i = 0 THEN 0
    ELSE IF s[i] = "." THEN i ELSE LastDot(s, i - 1)

\* os.path.splitext(p)[0] for a name without directory separators: the
\* extension starts at the last dot, unless only dots come before it
SplitextRoot(p) ==
    LET d == LastDot(p, Len(p)) IN
      IF d > 0 /\ \E j \in 1..(d - 1) : p[j] # "."
      THEN SubSeq(p, 1, d - 1)
      ELSE p

\* s[:-4]
DropLast4(s) == SubSeq(s, 1, Len(s) - 4)

\* line 64: the entry is an image
IsImage(filename) == EndsWith(filename, Tiff) \/ EndsWith(filename, Tif)

\* a target name that keeps the extension of the image
TargetFilenameKeepExt(filename) == filename \o Txt

\* line 66: target_filename
TargetFilename(filename) == SplitextRoot(filename) \o Txt

\* the listing of the target directory kept with the .txt extension
ListProcessedNoStrip(dir) == { m \in DOMAIN dir : EndsWith(m, Txt) }

\* lines 57-60: the names of the .txt files of the target directory,
\* without their extension
ListProcessed(dir) ==
    { SplitextRoot(n) : n \in { m \in DOMAIN dir : EndsWith(m, Txt) } }

\* line 70: the entry counts as processed
AlreadyProcessed(filename, processed) ==
    DropLast4(TargetFilename(filename)) \in processed

\* line 84: what a successful image adds to processed_files
MarkProcessed(filename, processed) ==
    processed \cup {TargetFilename(filename)}

\* line 78: the text recognised in an image. Each image has its own text.
Recognize(filename) == filename

\* results of lines 77-78 for one image
Outcomes == {"ok", "decode_error", "recognition_error"}

\* a handler that catches decoding errors only
CaughtDecodeOnly(outcome) == outcome = "decode_error"

\* line 88: except Exception
Caught(outcome) == outcome \in {"decode_error", "recognition_error"}

\* open(target_path, "w") followed by write(text)
WriteFile(dir, name, text) ==
    [n \in DOMAIN dir \cup {name} |-> IF n = name THEN text ELSE dir[n]]

\* a target file opened before the image is decoded: a failure leaves it empty
TargetAfterFailureEmptyFile(dir, filename) ==
    WriteFile(dir, TargetFilename(filename), <<>>)

\* lines 76-81: Image.open or image_to_string raised before line 80, so the
\* target directory is as it was
TargetAfterFailure(dir, filename) == dir

OcrInit ==
    /\ sourceExists \in BOOLEAN
    /\ source \in IF sourceExists THEN Listings(SrcNames, MaxSrc) ELSE {<<>>}
    /\ targetExists \in BOOLEAN
    /\ target \in IF targetExists THEN InitialTargets ELSE {<<>>}
    /\ processed_files = {}
    /\ srcPos = 1
    /\ ocrPc = "ready"
    /\ run = 1
    /\ recognized = <<>>
    /\ writes = <<>>
    /\ errors = <<>>
    /\ failed = {}
    /\ targetAtStart = target

OcrIdle ==
    /\ sourceExists = FALSE
    /\ source = <<>>
    /\ targetExists = FALSE
    /\ target = <<>>
    /\ processed_files = {}
    /\ srcPos = 1
    /\ ocrPc = "idle"
    /\ run = 1
    /\ recognized = <<>>
    /\ writes = <<>>
    /\ errors = <<>>
    /\ failed = {}
    /\ targetAtStart = <<>>

\* lines 52-63: the target directory is created, processed_files is read
\* from it, and the source directory is listed (which raises when it is
\* missing)
OcrStart ==
    /\ ocrPc = "ready"
    /\ targetExists' = TRUE
    /\ processed_files' = ListProcessed(target)
    /\ targetAtStart' = target
    /\ srcPos' = 1
    /\ ocrPc' = IF sourceExists THEN "loop" ELSE "raised"
    /\ UNCHANGED <<sourceExists, source, target, run, recognized, writes,
                   errors, failed>>
    /\ UNCHANGED <<searchVars, poolVars>>

\* line 64: an entry that is not .tif/.tiff is passed over
OcrSkipEntry ==
    /\ ocrPc = "loop"
    /\ srcPos <= Len(source)
    /\ ~IsImage(source[srcPos])
    /\ srcPos' = srcPos + 1
    /\ UNCHANGED <<sourceExists, source, targetExists, target,
                   processed_files, ocrPc, run, recognized, writes, errors,
                   failed, targetAtStart>>
    /\ UNCHANGED <<searchVars, poolVars>>

\* lines 70-73: an image found in processed_files is skipped
OcrSkipProcessed ==
    /\ ocrPc = "loop"
    /\ srcPos <= Len(source)
    /\ IsImage(source[srcPos])
    /\ AlreadyProcessed(source[srcPos], processed_files)
    /\ srcPos' = srcPos + 1
    /\ UNCHANGED <<sourceExists, source, targetExists, target,
                   processed_files, ocrPc, run, recognized, writes, errors,
                   failed, targetAtStart>>
    /\ UNCHANGED <<searchVars, poolVars>>

\* lines 76-90: the image is decoded and recognised and its text is written
OcrProcess ==
    /\ ocrPc = "loop"
    /\ srcPos <= Len(source)
    /\ IsImage(source[srcPos])
    /\ ~AlreadyProcessed(source[srcPos], processed_files)
    /\ \E outcome \in Outcomes :
         LET filename == source[srcPos] IN
           /\ recognized' = IF outcome = "decode_error" THEN recognized
                            ELSE Append(recognized, <<run, filename>>)
           /\ IF outcome = "ok"
              THEN /\ target' = WriteFile(target, TargetFilename(filename),
                                          Recognize(filename))
                   /\ writes' = Append(writes,
                                  <<run, filename, TargetFilename(filename)>>)
                   /\ processed_files' = MarkProcessed(filename, processed_files)
                   /\ srcPos' = srcPos + 1
                   /\ UNCHANGED <<errors, failed, ocrPc>>
              ELSE /\ failed' = failed \cup {<<run, filename>>}
                   /\ IF Caught(outcome)
                      THEN /\ errors' = Append(errors, <<run, filename>>)
                           /\ srcPos' = srcPos + 1
                           /\ UNCHANGED ocrPc
                      ELSE /\ ocrPc' = "raised"
                           /\ UNCHANGED <<errors, srcPos>>
                   /\ target' = TargetAfterFailure(target, filename)
                   /\ UNCHANGED <<writes, processed_files>>
    /\ UNCHANGED <<sourceExists, source, targetExists, run, targetAtStart>>
    /\ UNCHANGED <<searchVars, poolVars>>

\* the loop of line 63 is exhausted: ocr_parse returns
OcrReturn ==
    /\ ocrPc = "loop"
    /\ srcPos > Len(source)
    /\ ocrPc' = "returned"
    /\ UNCHANGED <<sourceExists, source, targetExists, target,
                   processed_files, srcPos, run, recognized, writes, errors,
                   failed, targetAtStart>>
    /\ UNCHANGED <<searchVars, poolVars>>

\* the caller runs ocr_parse again on the same directories
OcrRunAgain ==
    /\ ocrPc \in {"returned", "raised"}
    /\ run < MaxRuns
    /\ run' = run + 1
    /\ ocrPc' = "ready"
    /\ UNCHANGED <<sourceExists, source, targetExists, target,
                   processed_files, srcPos, recognized, writes, errors,
                   failed, targetAtStart>>
    /\ UNCHANGED <<searchVars, poolVars>>

(***************************************************************************)
(* process_source_files                                                    *)
(***************************************************************************)
\* line 106: Pool(processes=6)
PoolSize == 6

Archives == 1..MaxArchives

\* states of a task: "none" (not submitted), "queued", "running", "done",
\* "failed" (it raised), "killed" (its worker was terminated while it ran),
\* "dropped" (it was still queued when the pool was terminated)
Finished == {"done", "failed"}

\* number of tasks the workers are executing
Busy ==
    Cardinality({a \in Archives : ext[a] = "running"}) +
    Cardinality({a \in Archives : ocr[a] = "running"})

\* a pool that starts a worker for every task
WorkerFreeAlways == TRUE

\* a worker process is idle and takes the next task
WorkerFree == Busy < PoolSize

\* an extraction submitted without waiting for its result
ApplyReadyNoWait(a) == ext[a] \in {"queued", "running", "done"}

\* an extraction whose exception is swallowed
ApplyReadyIgnoreError(a) == ext[a] \in {"done", "failed"}

\* pool.apply: the call returns once the task has produced its result
ApplyReady(a) == ext[a] = "done"

\* a join that does not wait
JoinReadyNoWait == TRUE

\* pool.join: every submitted task has been handled by a worker
JoinReady ==
    /\ taskq = <<>>
    /\ \A a \in Archives : ext[a] \in Finished \cup {"none"}
    /\ \A a \in Archives : ocr[a] \in Finished \cup {"none"}

\* Pool.terminate (Pool.__exit__): the workers are stopped and the queued
\* tasks are discarded
Terminate(st) ==
    [a \in Archives |-> CASE st[a] = "running" -> "killed"
                          [] st[a] = "queued"  -> "dropped"
                          [] OTHER             -> st[a]]

\* a directory that is used without being created
EnsureDirSkipped(dirs, a) == dirs

\* lines 53-54 and 115-116: if not os.path.exists(d): os.makedirs(d)
EnsureDir(dirs, a) == dirs \cup {a}

\* the archives of the task-level runs: the first holds one image
PoolArchives == [a \in Archives |-> IF a = 1 THEN <<YTif>> ELSE <<>>]

\* what one archive may hold when the files are followed
PipeListings ==
    { <<>>,                 \* no entry
      <<XTif, YTif>>,       \* two images
      <<XTif, XTiff>>,      \* two images of one base name
      <<XTiff, XTif>>,
      <<NTxt, YTif>> }      \* an entry that is not an image, and an image

\* the archives of the runs that follow the files
PipeArchives(n) ==
    { [a \in Archives |-> IF a <= n THEN f[a] ELSE <<>>] :
        f \in [1..n -> PipeListings] }

PoolStart ==
    /\ mainPc = "start"
    /\ cur = 1
    /\ taskq = <<>>
    /\ ext = [a \in Archives |-> "none"]
    /\ ocr = [a \in Archives |-> "none"]
    /\ poolState = "none"
    /\ sourceDir = {}
    /\ srcFiles = [a \in Archives |-> <<>>]
    /\ tgtDir = {}
    /\ tgtFiles = [a \in Archives |-> <<>>]
    /\ taskProcessed = [a \in Archives |-> {}]
    /\ taskPos = [a \in Archives |-> 0]
    /\ poolLog = {}

PoolInit ==
    /\ zips \in 0..MaxArchives
    /\ archive = PoolArchives
    /\ PoolStart

PipeInit ==
    /\ zips \in 0..MaxPipeArchives
    /\ archive \in PipeArchives(zips)
    /\ PoolStart

PoolIdle ==
    /\ zips = 0
    /\ mainPc = "idle"
    /\ cur = 1
    /\ taskq = <<>>
    /\ ext = [a \in Archives |-> "none"]
    /\ ocr = [a \in Archives |-> "none"]
    /\ poolState = "none"
    /\ sourceDir = {}
    /\ archive = [a \in Archives |-> <<>>]
    /\ srcFiles = [a \in Archives |-> <<>>]
    /\ tgtDir = {}
    /\ tgtFiles = [a \in Archives |-> <<>>]
    /\ taskProcessed = [a \in Archives |-> {}]
    /\ taskPos = [a \in Archives |-> 0]
    /\ poolLog = {}

\* lines 100-106: the archives are listed and the pool is created
PoolOpen ==
    /\ mainPc = "start"
    /\ poolState' = "open"
    /\ mainPc' = "loop"
    /\ UNCHANGED <<zips, cur, taskq, ext, ocr, sourceDir, fileVars, poolLog>>
    /\ UNCHANGED <<searchVars, ocrVars>>

\* lines 107-119: the source directory of the next archive is created and
\* its extraction is handed to the pool; the orchestrator waits in apply
SubmitExtract ==
    /\ mainPc = "loop"
    /\ cur <= zips
    /\ sourceDir' = EnsureDir(sourceDir, cur)
    /\ taskq' = Append(taskq, <<"extract", cur>>)
    /\ ext' = [ext EXCEPT ![cur] = "queued"]
    /\ mainPc' = "apply"
    /\ UNCHANGED <<zips, cur, ocr, poolState, fileVars, poolLog>>
    /\ UNCHANGED <<searchVars, ocrVars>>

\* line 119: pool.apply returns
ApplyReturn ==
    /\ mainPc = "apply"
    /\ ApplyReady(cur)
    /\ mainPc' = "async"
    /\ UNCHANGED <<zips, cur, taskq, ext, ocr, poolState, sourceDir,
                   fileVars, poolLog>>
    /\ UNCHANGED <<searchVars, ocrVars>>

\* line 119: pool.apply re-raises the exception of extract_zip; it leaves
\* the with block of line 106, whose exit terminates the pool
ApplyRaise ==
    /\ mainPc = "apply"
    /\ ext[cur] = "failed"
    /\ mainPc' = "raised"
    /\ poolState' = "terminated"
    /\ taskq' = <<>>
    /\ ext' = Terminate(ext)
    /\ ocr' = Terminate(ocr)
    /\ UNCHANGED <<zips, cur, sourceDir, fileVars, poolLog>>
    /\ UNCHANGED <<searchVars, ocrVars>>

\* lines 122-125: ocr_parse of the archive is handed to the pool with
\* apply_async, the archive is logged and the loop goes on
SubmitOcr ==
    /\ mainPc = "async"
    /\ taskq' = Append(taskq, <<"ocr", cur>>)
    /\ ocr' = [ocr EXCEPT ![cur] = "queued"]
    /\ poolLog' = poolLog \cup {<<"INFO", "processing", cur>>}
    /\ cur' = cur + 1
    /\ mainPc' = "loop"
    /\ UNCHANGED <<zips, ext, poolState, sourceDir, fileVars>>
    /\ UNCHANGED <<searchVars, ocrVars>>

\* line 128: pool.close()
PoolClose ==
    /\ mainPc = "loop"
    /\ cur > zips
    /\ poolState' = "closed"
    /\ mainPc' = "join"
    /\ UNCHANGED <<zips, cur, taskq, ext, ocr, sourceDir, fileVars, poolLog>>
    /\ UNCHANGED <<searchVars, ocrVars>>

\* line 129: pool.join() returns, the with block is left and
\* process_source_files returns
PoolJoin ==
    /\ mainPc = "join"
    /\ JoinReady
    /\ mainPc' = "returned"
    /\ poolState' = "terminated"
    /\ taskq' = <<>>
    /\ ext' = Terminate(ext)
    /\ ocr' = Terminate(ocr)
    /\ UNCHANGED <<zips, cur, sourceDir, fileVars, poolLog>>
    /\ UNCHANGED <<searchVars, ocrVars>>

\* an idle worker takes the oldest task of the queue and starts it; an
\* extraction begins with the logger.info of line 39
StartTask ==
    /\ poolState \in {"open", "closed"}
    /\ taskq # <<>>
    /\ WorkerFree
    /\ LET t == Head(taskq) IN
         /\ IF t[1] = "extract"
            THEN /\ ext' = [ext EXCEPT ![t[2]] = "running"]
                 /\ poolLog' = poolLog \cup {<<"INFO", "extracting", t[2]>>}
                 /\ UNCHANGED ocr
            ELSE /\ ocr' = [ocr EXCEPT ![t[2]] = "running"]
                 /\ UNCHANGED <<ext, poolLog>>
    /\ taskq' = Tail(taskq)
    /\ UNCHANGED <<zips, mainPc, cur, poolState, sourceDir, fileVars>>
    /\ UNCHANGED <<searchVars, ocrVars>>

\* lines 40-41: extract_zip returns with the entries of the archive in the
\* source directory, or raises on an unreadable archive
FinishExtract ==
    /\ poolState \in {"open", "closed"}
    /\ \E a \in Archives :
         /\ ext[a] = "running"
         /\ \E result \in Finished :
              /\ ext' = [ext EXCEPT ![a] = result]
              /\ srcFiles' = IF result = "done"
                             THEN [srcFiles EXCEPT ![a] = archive[a]]
                             ELSE srcFiles
    /\ UNCHANGED <<zips, mainPc, cur, taskq, ocr, poolState, sourceDir,
                   archive, tgtDir, tgtFiles, taskProcessed, taskPos, poolLog>>
    /\ UNCHANGED <<searchVars, ocrVars>>

\* lines 52-63 in a worker: the target directory is created, processed_files
\* is read from it and the source directory is listed
OcrTaskBegin ==
    /\ poolState \in {"open", "closed"}
    /\ \E a \in Archives :
         /\ ocr[a] = "running"
         /\ taskPos[a] = 0
         /\ tgtDir' = EnsureDir(tgtDir, a)
         /\ taskProcessed' = [taskProcessed EXCEPT ![a] = ListProcessed(tgtFiles[a])]
         /\ taskPos' = [taskPos EXCEPT ![a] = 1]
    /\ UNCHANGED <<zips, mainPc, cur, taskq, ext, ocr, poolState, sourceDir,
                   archive, srcFiles, tgtFiles, poolLog>>
    /\ UNCHANGED <<searchVars, ocrVars>>

\* lines 52-63 in a worker: os.makedirs or os.listdir raises, outside the
\* per-image handler; the pool keeps the exception in a result nobody reads
OcrTaskRaise ==
    /\ poolState \in {"open", "closed"}
    /\ \E a \in Archives :
         /\ ocr[a] = "running"
         /\ taskPos[a] = 0
         /\ ocr' = [ocr EXCEPT ![a] = "failed"]
    /\ UNCHANGED <<zips, mainPc, cur, taskq, ext, poolState, sourceDir,
                   fileVars, poolLog>>
    /\ UNCHANGED <<searchVars, ocrVars>>

\* lines 63-90 in a worker: one iteration of the loop of ocr_parse
OcrTaskStep ==
    /\ poolState \in {"open", "closed"}
    /\ \E a \in Archives :
         /\ ocr[a] = "running"
         /\ taskPos[a] >= 1
         /\ taskPos[a] <= Len(srcFiles[a])
         /\ LET filename == srcFiles[a][taskPos[a]] IN
              IF ~IsImage(filename)
              THEN UNCHANGED <<tgtFiles, taskProcessed, poolLog>>
              ELSE IF AlreadyProcessed(filename, taskProcessed[a])
              THEN /\ poolLog' = poolLog \cup {<<"INFO", "skipped", a>>}
                   /\ UNCHANGED <<tgtFiles, taskProcessed>>
              ELSE \E outcome \in Outcomes :
                     IF outcome = "ok"
                     THEN /\ tgtFiles' = [tgtFiles EXCEPT ![a] =
                                 WriteFile(tgtFiles[a], TargetFilename(filename),
                                           Recognize(filename))]
                          /\ taskProcessed' = [taskProcessed EXCEPT ![a] =
                                 MarkProcessed(filename, taskProcessed[a])]
                          /\ poolLog' = poolLog \cup {<<"INFO", "completed", a>>}
                     ELSE /\ tgtFiles' = [tgtFiles EXCEPT ![a] =
                                 TargetAfterFailure(tgtFiles[a], filename)]
                          /\ poolLog' = poolLog \cup {<<"ERROR", "image", a>>}
                          /\ UNCHANGED taskProcessed
         /\ taskPos' = [taskPos EXCEPT ![a] = taskPos[a] + 1]
    /\ UNCHANGED <<zips, mainPc, cur, taskq, ext, ocr, poolState, sourceDir,
                   archive, srcFiles, tgtDir>>
    /\ UNCHANGED <<searchVars, ocrVars>>

\* line 63 in a worker: the loop is exhausted and the ocr_parse task returns
FinishOcr ==
    /\ poolState \in {"open", "closed"}
    /\ \E a \in Archives :
         /\ ocr[a] = "running"
         /\ taskPos[a] > Len(srcFiles[a])
         /\ ocr' = [ocr EXCEPT ![a] = "done"]
    /\ UNCHANGED <<zips, mainPc, cur, taskq, ext, poolState, sourceDir,
                   fileVars, poolLog>>
    /\ UNCHANGED <<searchVars, ocrVars>>

(***************************************************************************)
(* Specifications                                                          *)
(***************************************************************************)
InitSearch == SearchInit /\ OcrIdle /\ PoolIdle
NextSearch == SearchVisit \/ SearchWriteOutput \/ SearchOutputError
SpecSearch == InitSearch /\ [][NextSearch]_vars

InitOcr == SearchIdle /\ OcrInit /\ PoolIdle
NextOcr ==
    \/ OcrStart \/ OcrSkipEntry \/ OcrSkipProcessed \/ OcrProcess
    \/ OcrReturn \/ OcrRunAgain
SpecOcr == InitOcr /\ [][NextOcr]_vars

InitPool == SearchIdle /\ OcrIdle /\ PoolInit
NextPool ==
    \/ PoolOpen \/ SubmitExtract \/ ApplyReturn \/ ApplyRaise \/ SubmitOcr
    \/ PoolClose \/ PoolJoin \/ StartTask \/ FinishExtract
    \/ OcrTaskBegin \/ OcrTaskRaise \/ OcrTaskStep \/ FinishOcr
SpecPool == InitPool /\ [][NextPool]_vars

\* the orchestrator and the workers keep running: a step that can be taken
\* is eventually taken
InitPipe == SearchIdle /\ OcrIdle /\ PipeInit
SpecPipe == InitPipe /\ [][NextPool]_vars /\ WF_vars(NextPool)

(***************************************************************************)
(* Properties of search_text_files (SpecSearch)                            *)
(***************************************************************************)
\* the .txt files of the tree
TxtFiles == { k \in 1..Len(tree) : EndsWith(tree[k].path, Txt) }

\* the whitespace-separated terms of the query
QueryTerms == { Split(query)[i] : i \in 1..Len(Split(query)) }

\* C1: for a query with the token OR, every .txt file under the root whose
\* content contains at least one of the non-OR terms is recorded, whatever
\* its position in the traversal.
C1_OrMatchesAnyTermInEveryFile ==
    (searchPc = "done" /\ OR \in QueryTerms) =>
        \A k \in TxtFiles :
            (\E t \in QueryTerms \ {OR} : Contains(tree[k].content, t))
                => InList(output, tree[k].path)

C9_FailsOnMissingRootOrOutput ==
    searchPc = "done" => (rootExists /\ outputWritable)

(***************************************************************************)
(* Properties of ocr_parse (SpecOcr)                                       *)
(***************************************************************************)
\* the images of the source directory
Images == { source[i] : i \in { j \in 1..Len(source) : IsImage(source[j]) } }

\* the calls of the recognition engine made in run r
RecognizedIn(r) == { i \in 1..Len(recognized) : recognized[i][1] = r }

\* C3: a run after the first, started on a target directory that holds the
\* text artifact of every image of the (unchanged) source directory, invokes
\* the recognition engine for no image and leaves the target directory as
\* it was.
C3_SecondRunIdempotent ==
    ( /\ run >= 2
      /\ ocrPc \in {"loop", "returned"}
      /\ \A f \in Images : TargetFilename(f) \in DOMAIN targetAtStart )
    => (RecognizedIn(run) = {} /\ target = targetAtStart)

\* the second run has returned, after a first run that recognised and wrote
\* both x.tif and y.tif
C3_Witness ==
    /\ run = 2
    /\ ocrPc = "returned"
    /\ {XTif, YTif} \subseteq Images
    /\ \A f \in Images : TargetFilename(f) \in DOMAIN targetAtStart
    /\ \E i \in 1..Len(writes) : writes[i][1] = 1 /\ writes[i][2] = XTif
    /\ \E i \in 1..Len(writes) : writes[i][1] = 1 /\ writes[i][2] = YTif

\* C4: over all the runs against one target directory the recognition engine
\* is invoked at most once per image base name, and in one run over N images
\* at most N times.
C4_AtMostOncePerBaseName ==
    /\ \A i, j \in 1..Len(recognized) :
         i # j => SplitextRoot(recognized[i][2]) # SplitextRoot(recognized[j][2])
    /\ \A r \in 1..MaxRuns :
         Cardinality(RecognizedIn(r)) <= Cardinality(Images)

\* number of errors logged for image f in run r
ErrorsFor(r, f) ==
    Cardinality({ i \in 1..Len(errors) : errors[i] = <<r, f>> })

\* C5: a failure to decode or recognise one image does not make ocr_parse
\* raise, is logged once, writes nothing for that image, and every other
\* image of the source directory is still handled: when the run returns,
\* each image that did not fail in it has its text artifact.
C5_PerImageFailureIsolated ==
    /\ ocrPc = "raised" => failed = {}
    /\ \A e \in failed : ErrorsFor(e[1], e[2]) = 1
    /\ Len(errors) = Cardinality(failed)
    /\ \A i \in 1..Len(writes) : <<writes[i][1], writes[i][2]>> \notin failed
    /\ ocrPc = "returned" =>
         \A f \in Images :
            <<run, f>> \notin failed => TargetFilename(f) \in DOMAIN target

\* x.tif is listed before y.tif and fails; y.tif is recognised and written
C5_Witness ==
    /\ ocrPc = "returned"
    /\ run = 1
    /\ <<1, XTif>> \in failed
    /\ \E i, j \in 1..Len(source) : i < j /\ source[i] = XTif /\ source[j] = YTif
    /\ \E i \in 1..Len(writes) : writes[i] = <<1, YTif, <<"y">> \o Txt>>
    /\ (<<"y">> \o Txt) \in DOMAIN target
    /\ XTxt \notin DOMAIN target

(***************************************************************************)
(* Properties of process_source_files (SpecPool)                           *)
(***************************************************************************)
\* C6: the OCR task of an archive has started only if the extraction task
\* of the same archive has returned.
C6_OcrAfterExtraction ==
    \A a \in Archives :
        ocr[a] \in {"running", "done", "failed", "killed"} => ext[a] = "done"

\* the OCR task of the first archive runs while the second archive is
\* being extracted
C6_Witness ==
    /\ ocr[1] = "running"
    /\ ext[2] = "running"

\* C7: the number of tasks executing at the same time never exceeds the
\* size of the pool.
C7_AtMostPoolSizeBusy == Busy <= PoolSize

\* every worker is busy and one more task waits in the queue
C7_Witness ==
    /\ Busy = PoolSize
    /\ taskq # <<>>

\* C8: a task that raises does not terminate the pool, process_source_files
\* does not raise, and no task of another archive is left unfinished.
C8_FailureIsolatedAcrossArchives ==
    /\ mainPc # "raised"
    /\ poolState = "terminated" =>
         \A a \in 1..zips : ext[a] \in Finished /\ ocr[a] \in Finished

\* C10: when process_source_files returns, every task it submitted, each
\* extraction and each ocr_parse, has finished.
C10_ReturnsAfterAllTasks ==
    mainPc = "returned" =>
        /\ taskq = <<>>
        /\ \A a \in 1..zips : ext[a] = "done" /\ ocr[a] \in Finished

\* process_source_files has returned over several archives, one of whose
\* OCR tasks raised
C10_Witness ==
    /\ mainPc = "returned"
    /\ zips >= 2
    /\ \E a \in 1..zips : ocr[a] = "failed"
    /\ \E a \in 1..zips : ocr[a] = "done"

(***************************************************************************)
(* Further properties of ocr_parse (SpecOcr)                               *)
(***************************************************************************)
\* C12: within one run, the base name of every image recognised and written
\* so far is in processed_files, and no second image with that base name is
\* recognised in the run.
C12_ProcessedHoldsBaseNames ==
    /\ ocrPc = "loop" =>
         \A i \in 1..Len(writes) :
            writes[i][1] = run => SplitextRoot(writes[i][2]) \in processed_files
    /\ \A i, j \in 1..Len(writes) :
         (i < j /\ writes[i][1] = writes[j][1])
            => SplitextRoot(writes[i][2]) # SplitextRoot(writes[j][2])

\* C13: a text file of the target directory is never rewritten: every step
\* leaves each existing file in place with the content it had.
C13_ArtifactsNeverRewritten ==
    [][\A n \in DOMAIN target :
          n \in DOMAIN target' /\ target'[n] = target[n]]_vars

\* image f was decoded (and, unless decoding failed, recognised) in run r
Attempted(r, f) ==
    \/ <<r, f>> \in failed
    \/ \E i \in 1..Len(recognized) : recognized[i] = <<r, f>>

\* an image with the base name of f was recognised and written in run r
SiblingWritten(r, f) ==
    \E i \in 1..Len(writes) :
        writes[i][1] = r /\ writes[i][3] = SplitextRoot(f) \o Txt

\* C14: an image that failed in the previous run has no text artifact, and
\* the run that follows invokes the recognition engine for it.
C14_FailedImageRecognizedAgain ==
    \A e \in failed :
        (e[1] = run - 1 /\ ocrPc = "returned") =>
            /\ (SplitextRoot(e[2]) \o Txt) \notin DOMAIN targetAtStart
            /\ \E i \in 1..Len(recognized) : recognized[i] = <<run, e[2]>>

\* C14 as amended: unless an image of the same base name was written in the
\* run in which f failed, f has no text artifact when the next run starts,
\* its base name is not in the processed set of that run, and that run
\* decodes f again (and recognises it when decoding succeeds).
C14_FailedImageAttemptedAgain ==
    \A e \in failed :
        (e[1] = run - 1 /\ ocrPc \in {"loop", "returned"}
           /\ ~SiblingWritten(e[1], e[2])) =>
            /\ (SplitextRoot(e[2]) \o Txt) \notin DOMAIN targetAtStart
            /\ (ocrPc = "loop" /\ ~Attempted(run, e[2]))
                  => SplitextRoot(e[2]) \notin processed_files
            /\ ocrPc = "returned" => Attempted(run, e[2])

\* y.tif failed in the first run and is recognised and written in the second
C14_Witness ==
    /\ run = 2
    /\ ocrPc = "returned"
    /\ <<1, YTif>> \in failed
    /\ \E i \in 1..Len(writes) : writes[i][1] = 2 /\ writes[i][2] = YTif

(***************************************************************************)
(* Further properties of search_text_files (SpecSearch)                    *)
(***************************************************************************)
\* C18: one occurrence of OR is removed in the whole search: every .txt file
\* is evaluated against the query's terms less the first OR, so the last
\* file is evaluated against the same list as the first.
C18_OneOrRemovedPerSearch ==
    OR \in QueryTerms =>
        \A i \in 1..Len(usedTerms) :
            usedTerms[i].terms = Remove(Split(query), OR)

(***************************************************************************)
(* Further properties of process_source_files (SpecPool, SpecPipe)         *)
(***************************************************************************)
\* the image entries of archive a
PipeImages(a) ==
    { archive[a][i] : i \in { j \in 1..Len(archive[a]) : IsImage(archive[a][j]) } }

\* an extraction, an ocr_parse task or the handling of one image has failed
AnyFailure ==
    \E a \in Archives :
        \/ ext[a] = "failed"
        \/ ocr[a] = "failed"
        \/ <<"ERROR", "image", a>> \in poolLog

\* C11 (final state): after a return without any failure, the target
\* directory of every archive holds as many text files as the archive has
\* images, one named after the base name of each image.
C11_OneArtifactPerImage ==
    (mainPc = "returned" /\ ~AnyFailure) =>
        \A a \in 1..zips :
            /\ Cardinality(DOMAIN tgtFiles[a]) = Cardinality(PipeImages(a))
            /\ \A f \in PipeImages(a) : (SplitextRoot(f) \o Txt) \in DOMAIN tgtFiles[a]

\* C11 as amended: unless an extraction or a recognition fails,
\* process_source_files eventually returns, and after such a return the
\* target directory of every archive holds exactly one text file per base
\* name of the images of the archive, with the text of an image of that name.
C11_OneArtifactPerBaseName ==
    /\ []( (mainPc = "returned" /\ ~AnyFailure) =>
            \A a \in 1..zips :
                /\ DOMAIN tgtFiles[a] = { SplitextRoot(f) \o Txt : f \in PipeImages(a) }
                /\ \A n \in DOMAIN tgtFiles[a] :
                      \E f \in PipeImages(a) :
                          /\ n = SplitextRoot(f) \o Txt
                          /\ tgtFiles[a][n] = Recognize(f) )
    /\ <>(AnyFailure \/ mainPc = "returned")

\* the run has returned without failure; an archive of x.tif and y.tif has
\* the two artifacts x.txt and y.txt
C11_Witness ==
    /\ mainPc = "returned"
    /\ ~AnyFailure
    /\ \E a \in 1..zips :
         /\ archive[a] = <<XTif, YTif>>
         /\ DOMAIN tgtFiles[a] = {XTxt, <<"y">> \o Txt}

\* C15: the OCR task of an archive whose extraction failed is never
\* submitted.
C15_NoOcrAfterFailedExtraction ==
    \A a \in Archives : ext[a] = "failed" => ocr[a] = "none"

\* the extraction of a later archive has failed and process_source_files
\* has raised, after the OCR task of the first archive was submitted
C15_Witness ==
    /\ mainPc = "raised"
    /\ ocr[1] # "none"
    /\ \E a \in 2..zips : ext[a] = "failed"

\* position of the extraction of archive a in the task queue
QueuePos(a) == CHOOSE i \in 1..Len(taskq) : taskq[i] = <<"extract", a>>

\* OCR tasks submitted and not finished
UnfinishedOcr == { b \in Archives : ocr[b] \in {"queued", "running"} }

\* C16: a submitted extraction never has to wait for a task of another
\* archive to finish: the idle workers suffice for the tasks queued before
\* it and for itself.
C16_ExtractionNeverWaits ==
    \A a \in Archives :
        ext[a] = "queued" => Busy + QueuePos(a) <= PoolSize

\* C16 as amended: a submitted extraction never waits for another
\* extraction (they are dispatched one after the other); the tasks before
\* it are OCR tasks of earlier archives, and it has to wait for one of them
\* to finish only when PoolSize or more of them are unfinished.
C16_ExtractionWaitsOnlyForFullPool ==
    \A a \in Archives :
        ext[a] = "queued" =>
            /\ \A b \in Archives \ {a} : ext[b] \notin {"queued", "running"}
            /\ \A b \in UnfinishedOcr : b < a
            /\ Cardinality(UnfinishedOcr) < PoolSize
                  => Busy + QueuePos(a) <= PoolSize

\* an extraction is queued while OCR tasks of earlier archives occupy every
\* worker
C16_Witness ==
    \E a \in Archives :
        /\ ext[a] = "queued"
        /\ Cardinality({ b \in Archives : ocr[b] = "running" }) = PoolSize

\* C17: for every extraction task and every OCR task that raised, the log
\* holds an error record of the task.
C17_TaskFailuresLogged ==
    \A a \in Archives :
        (ext[a] = "failed" \/ ocr[a] = "failed") =>
            \E r \in poolLog : r[1] = "ERROR" /\ r[2] = "task" /\ r[3] = a

\* C19: a source directory exists when its extraction starts and when
\* entries are extracted into it, and a target directory exists when a text
\* file is written into it.
C19_DirectoriesExistBeforeUse ==
    [][\A a \in Archives :
          /\ (ext[a] # "running" /\ ext'[a] = "running") => a \in sourceDir
          /\ srcFiles'[a] # srcFiles[a] => a \in sourceDir
          /\ tgtFiles'[a] # tgtFiles[a] => a \in tgtDir]_vars

\* an ocr_parse task is in its loop and has written a text file
C19_Witness ==
    \E a \in Archives :
        /\ ocr[a] = "running"
        /\ DOMAIN tgtFiles[a] # {}
        /\ a \in tgtDir
        /\ a \in sourceDir

\* C20: at most one extraction is submitted or executing at any time, and
\* an extraction is submitted only after the extractions of all the
\* archives listed before it have returned.
C20_ExtractionsSerialized ==
    /\ Cardinality({ a \in Archives : ext[a] \in {"queued", "running"} }) <= 1
    /\ \A a, b \in Archives : (a < b /\ ext[b] # "none") => ext[a] = "done"

\* the third archive is being extracted while the OCR tasks of the first
\* two run
C20_Witness ==
    /\ ext[3] = "running"
    /\ ocr[1] = "running"
    /\ ocr[2] = "running"
====
